---- MODULE Spec2Model ----
(***************************************************************************)
(* Credential vault and exchange-session lifecycle of the dashboard         *)
(* backend: the Fernet cipher wrapper (utils/crypto.py), the single-slot    *)
(* Bybit client cache (bybit_service.py), the exchange_api table            *)
(* (models.py, database.py) and the request handlers that compose them      *)
(* (api_keys.py, app.py).                                                   *)
(*                                                                          *)
(* Every handler is an `async def` without an await in its body, so a       *)
(* handler runs to completion on the event loop: one action per request.    *)
(* Strings are sequences of small naturals.                                 *)
(***************************************************************************)
EXTENDS Naturals, Integers, Sequences, FiniteSets, TLC

VARIABLES
    store,                  \* rows of table exchange_api, in insertion order
    _bybit_client,          \* bybit_service._bybit_client (NoClient = None)
    _testnet_mode,          \* bybit_service._testnet_mode
    _encryption_manager,    \* utils.crypto._encryption_manager: its Fernet key, NoKey = None
    envKey,                 \* os.getenv("ENCRYPTION_KEY"): NoKey = not supplied
    ngen,                   \* number of Fernet.generate_key() calls so far
    events,                 \* rows of table events
    trades,                 \* rows of table trades
    inflight,               \* requests the server has accepted, with their handlers' progress
    last                    \* observation of the last completed request or call

vars == <<store, _bybit_client, _testnet_mode, _encryption_manager, envKey, ngen,
          events, trades, inflight, last>>

----------------------------------------------------------------------------
(* Bounds *)

MaxIV == 0          \* Fernet IVs range over 0..MaxIV
MaxGen == 2         \* cap on generated (ephemeral) Fernet keys
MaxBalance == 1     \* balances the venue reports range over 0..MaxBalance
MaxInflight == 2    \* requests the server holds at the same time

(* Program constants *)

Version == 128      \* first byte of a Fernet token (0x80)
Base == 256         \* byte arithmetic
NoKey == 0          \* None for a Fernet key

EnvKeys == {1}                          \* keys an operator may supply in ENCRYPTION_KEY
GenKey(n) == 10 + n                     \* the n-th key made by Fernet.generate_key()

(* the api keys and api secrets a request may carry: empty, or one of two *)
KeyStrings == {<<>>, <<1>>, <<2>>}
SecretStrings == {<<>>, <<3, 3>>, <<4, 4>>}
Exchanges == {"bybit", "BYBIT", "okx"}
IVs == 0..MaxIV
VenueResults == {"ok", "reject", "raise"}   \* retCode 0 / retCode # 0 / transport exception

----------------------------------------------------------------------------
(* str.lower() on the exchange names a request may carry *)
Lower(s) == IF s = "BYBIT" THEN "bybit" ELSE s

RECURSIVE SumSeq(_)
SumSeq(s) == IF s = <<>> THEN 0 ELSE Head(s) + SumSeq(Tail(s))

(* HMAC of a Fernet token under a key: depends on the key, the IV and every
   ciphertext byte with its position *)
Hmac(key, iv, body) ==
    key * 100000 + iv * 10000 + Len(body) * 1000
        + SumSeq([i \in 1..Len(body) |-> i * body[i]])

(* EncryptionManager.encrypt: Fernet token = version || iv || ciphertext || hmac *)
EncryptPlain(key, iv, data) == data

Encrypt(key, iv, data) ==
    LET body == [i \in 1..Len(data) |-> (data[i] + key + iv) % Base]
    IN  <<Version, iv>> \o body \o <<Hmac(key, iv, body)>>

(* EncryptionManager.decrypt: verifies version and hmac, raises otherwise *)
DecryptNoVerify(key, token) ==
    IF Len(token) < 3 THEN [ok |-> FALSE, data |-> <<>>]
    ELSE [ok |-> TRUE,
          data |-> [i \in 1..(Len(token) - 3) |->
                       (token[i + 2] + 2 * Base - key - token[2]) % Base]]

Decrypt(key, token) ==
    IF Len(token) < 3 \/ token[1] # Version
    THEN [ok |-> FALSE, data |-> <<>>]
    ELSE LET iv == token[2]
             body == SubSeq(token, 3, Len(token) - 1)
             tag == token[Len(token)]
         IN  IF tag # Hmac(key, iv, body)
             THEN [ok |-> FALSE, data |-> <<>>]
             ELSE [ok |-> TRUE,
                   data |-> [i \in 1..Len(body) |-> (body[i] + 2 * Base - key - iv) % Base]]

----------------------------------------------------------------------------
(* Exchange session *)

NoClient == [api_key |-> <<>>, api_secret |-> <<>>, testnet |-> FALSE]

(* BybitClientWrapper.__init__ *)
BybitClientWrapper(api_key, api_secret, testnet) ==
    [api_key |-> api_key, api_secret |-> api_secret, testnet |-> testnet]

(* the rebuild test of get_bybit_client *)
NeedsRebuildKeyOnly(client, mode, api_key, testnet) ==
    \/ client = NoClient
    \/ client.api_key # api_key

NeedsRebuild(client, mode, api_key, testnet) ==
    \/ client = NoClient
    \/ mode # testnet
    \/ client.api_key # api_key

(* get_bybit_client: the client returned (ret), whether the call raised,
   whether it constructed a client (built), and the module globals after the
   call.  ctorFails: the BybitClientWrapper constructor raises. *)
GetBybitClientAssignFirst(client, mode, api_key, api_secret, testnet, ctorFails) ==
    IF NeedsRebuild(client, mode, api_key, testnet)
    THEN IF ctorFails
         THEN [raised |-> TRUE, ret |-> NoClient, client |-> NoClient, mode |-> testnet,
               built |-> FALSE]
         ELSE LET c == BybitClientWrapper(api_key, api_secret, testnet)
              IN  [raised |-> FALSE, ret |-> c, client |-> c, mode |-> testnet,
                   built |-> TRUE]
    ELSE [raised |-> FALSE, ret |-> client, client |-> client, mode |-> mode,
          built |-> FALSE]

GetBybitClient(client, mode, api_key, api_secret, testnet, ctorFails) ==
    IF NeedsRebuild(client, mode, api_key, testnet)
    THEN IF ctorFails
         THEN [raised |-> TRUE, ret |-> NoClient, client |-> client, mode |-> mode,
               built |-> FALSE]
         ELSE LET c == BybitClientWrapper(api_key, api_secret, testnet)
              IN  [raised |-> FALSE, ret |-> c, client |-> c, mode |-> testnet,
                   built |-> TRUE]
    ELSE [raised |-> FALSE, ret |-> client, client |-> client, mode |-> mode,
          built |-> FALSE]

(* reset_bybit_client: the value of _bybit_client after the call *)
ResetKeep(client) == client

ResetBybitClient(client) == NoClient

----------------------------------------------------------------------------
(* The venue's answers to client.get_wallet_balance(accountType="UNIFIED") *)

(* a key the response dict does not hold; a value float() cannot parse *)
Missing == -1
Unparsable == -2

RetCodes == {0, 10003}
Fields == {"totalWalletBalance", "totalEquity", "totalAvailableBalance", "totalUnrealisedLoss"}
FieldValues == {Missing, Unparsable} \cup (0..MaxBalance)

(* one entry of result.list *)
Accounts == [Fields -> FieldValues]
EmptyAccount == [f \in Fields |-> Missing]

(* what the call does: it raises ("raise"), or returns None ("none"), an
   empty dict ("empty"), a value that is not a dict ("text"), or a dict
   ("dict") with or without retCode and with or without result.list *)
NoResponse(kind) == [kind |-> kind, retCode |-> Missing, haslist |-> FALSE, list |-> <<>>]

WalletResponses ==
    {NoResponse(kind) : kind \in {"raise", "none", "empty", "text"}}
    \cup [kind : {"dict"}, retCode : {Missing} \cup RetCodes, haslist : {FALSE}, list : {<<>>}]
    \cup [kind : {"dict"}, retCode : {Missing} \cup RetCodes, haslist : {TRUE},
          list : {<<>>} \cup {<<a>> : a \in Accounts}]

(* `if result and result.get('retCode') == 0`: the value of the test, or the
   exception of calling .get on a value that has none *)
RetCodeIsZero(resp) ==
    IF resp.kind \in {"none", "empty"} THEN [raised |-> FALSE, ret |-> FALSE]
    ELSE IF resp.kind = "text" THEN [raised |-> TRUE, ret |-> FALSE]
    ELSE [raised |-> FALSE, ret |-> resp.retCode = 0]

(* the body of validate_credentials' try block *)
ValidateBody(resp) ==
    IF resp.kind = "raise" THEN [raised |-> TRUE, ret |-> FALSE]
    ELSE RetCodeIsZero(resp)

(* BybitClientWrapper.validate_credentials on a venue answer: True on retCode
   0, every other response and every exception becomes False *)
ValidateNoExcept(resp) == ValidateBody(resp)

ValidateCredentialsOn(resp) ==
    IF ValidateBody(resp).raised THEN [raised |-> FALSE, ret |-> FALSE]
    ELSE ValidateBody(resp)

ZeroAccountInfo ==
    [total_wallet_balance |-> 0, total_equity |-> 0,
     available_balance |-> 0, total_unrealised_loss |-> 0]

(* float(list_data.get(field, 0)) *)
FloatOf(account, field) ==
    IF account[field] = Unparsable THEN [raised |-> TRUE, ret |-> 0]
    ELSE IF account[field] = Missing THEN [raised |-> FALSE, ret |-> 0]
    ELSE [raised |-> FALSE, ret |-> account[field]]

(* the body of get_account_info's try block *)
AccountInfoBody(resp) ==
    IF resp.kind = "raise" THEN [raised |-> TRUE, ret |-> ZeroAccountInfo]
    ELSE IF RetCodeIsZero(resp).raised THEN [raised |-> TRUE, ret |-> ZeroAccountInfo]
    ELSE IF ~RetCodeIsZero(resp).ret THEN [raised |-> FALSE, ret |-> ZeroAccountInfo]
    ELSE LET list == IF resp.haslist THEN resp.list ELSE <<EmptyAccount>>
         IN  IF list = <<>>
             THEN \* [][0] raises IndexError
                  [raised |-> TRUE, ret |-> ZeroAccountInfo]
             ELSE IF \E f \in Fields : FloatOf(list[1], f).raised
             THEN [raised |-> TRUE, ret |-> ZeroAccountInfo]
             ELSE [raised |-> FALSE,
                   ret |-> [total_wallet_balance |-> FloatOf(list[1], "totalWalletBalance").ret,
                            total_equity |-> FloatOf(list[1], "totalEquity").ret,
                            available_balance |-> FloatOf(list[1], "totalAvailableBalance").ret,
                            total_unrealised_loss |-> FloatOf(list[1], "totalUnrealisedLoss").ret]]

(* BybitClientWrapper.get_account_info on a venue answer *)
AccountInfoNoExcept(resp) == AccountInfoBody(resp)

AccountInfoOn(resp) ==
    IF AccountInfoBody(resp).raised THEN [raised |-> FALSE, ret |-> ZeroAccountInfo]
    ELSE AccountInfoBody(resp)

(* get_account_balance(): the module-level function, on the cached client *)
AccountBalanceOn(client, resp) ==
    IF client = NoClient THEN [raised |-> FALSE, ret |-> ZeroAccountInfo]
    ELSE AccountInfoOn(resp)

(* the answers the request handlers' venue calls draw from: retCode 0
   ("ok"), a non-zero retCode ("reject"), a transport exception ("raise") *)
WalletBalance(venue) ==
    IF venue = "raise" THEN NoResponse("raise")
    ELSE [kind |-> "dict", retCode |-> IF venue = "ok" THEN 0 ELSE 10003,
          haslist |-> FALSE, list |-> <<>>]

(* BybitClientWrapper.validate_credentials, as the handlers call it *)
ValidateAlways(venue) == TRUE

ValidateCredentials(venue) == ValidateCredentialsOn(WalletBalance(venue)).ret

----------------------------------------------------------------------------
(* Secret cipher singleton *)

(* get_encryption_manager: the key of the manager returned, and the number of
   generated keys after the call *)
GetEncryptionManagerEnvIgnored(mgr, env, g) ==
    IF mgr # NoKey THEN [key |-> mgr, g |-> g]
    ELSE [key |-> GenKey(g + 1), g |-> g + 1]

GetEncryptionManager(mgr, env, g) ==
    IF mgr # NoKey THEN [key |-> mgr, g |-> g]
    ELSE IF env # NoKey THEN [key |-> env, g |-> g]
    ELSE [key |-> GenKey(g + 1), g |-> g + 1]

(* the call can be made within the bound on generated keys *)
CanGetManager == _encryption_manager # NoKey \/ envKey # NoKey \/ ngen < MaxGen

----------------------------------------------------------------------------
(* Credential store: table exchange_api through a SessionLocal session *)

(* ExchangeAPI(...) as add_api_keys fills it *)
ExchangeAPI(exchange, encrypted_key, encrypted_secret, testnet) ==
    [exchange |-> exchange,
     api_key_encrypted |-> encrypted_key,
     api_secret_encrypted |-> encrypted_secret,
     testnet |-> testnet,
     is_connected |-> TRUE]

(* db.query(ExchangeAPI).filter(ExchangeAPI.exchange == name).first():
   index of the first matching row, 0 for None *)
First(rows, name) ==
    IF \E i \in 1..Len(rows) : rows[i].exchange = name
    THEN CHOOSE i \in 1..Len(rows) :
            /\ rows[i].exchange = name
            /\ \A j \in 1..(i - 1) : rows[j].exchange # name
    ELSE 0

RemoveAt(rows, i) ==
    IF i = 0 THEN rows
    ELSE SubSeq(rows, 1, i - 1) \o SubSeq(rows, i + 1, Len(rows))

(* db.commit() of a session with autoflush=False holding one pending delete
   (row index del, 0 for none) and the pending new rows added: the single
   flush emits the INSERTs before the DELETEs, and column exchange is
   unique=True, so an INSERT of an exchange still present raises
   IntegrityError and the transaction is rolled back. *)
CommitNoUnique(rows, del, added) ==
    [ok |-> TRUE, rows |-> rows \o added]

Commit(rows, del, added) ==
    IF \E i \in 1..Len(rows), j \in 1..Len(added) : rows[i].exchange = added[j].exchange
    THEN [ok |-> FALSE, rows |-> rows]
    ELSE [ok |-> TRUE, rows |-> RemoveAt(rows \o added, del)]

(* rows of tables events and trades: their primary key and the exchange_api
   row their exchange_id refers to, named by that row's unique exchange *)
AuditRow(id, exchange) == [id |-> id, exchange_api |-> exchange]

(* relationship(..., cascade="all, delete-orphan") on ExchangeAPI.trades and
   ExchangeAPI.events: the flush that deletes row del of exchange_api (0: no
   row deleted) deletes the children that refer to it *)
CascadeDelete(children, rows, del) ==
    IF del = 0 THEN children
    ELSE {c \in children : c.exchange_api # rows[del].exchange}

----------------------------------------------------------------------------
(* Observations *)

NoReq == [exchange |-> "", api_key |-> <<>>, api_secret |-> <<>>, testnet |-> FALSE]

(* what a completed request or call left to observe: the response (HTTP
   status, body status, detail); the request (req), kept for a request that
   was refused with 400 or that succeeded, NoReq otherwise; the client
   get_bybit_client returned (ret), kept when it is still cached at the end,
   NoClient otherwise; whether that call constructed a client (built); the
   venue's behaviour on the call the returned client issued ("none": no
   venue call); and the client a remove request found cached and dropped
   (evicted) *)
Obs(op, req, status, body, detail, ret, built, venue, evicted) ==
    [op |-> op, req |-> req, status |-> status, body |-> body, detail |-> detail,
     ret |-> ret, built |-> built, venue |-> venue, evicted |-> evicted]

(* str(e) of the exceptions the handlers format into a detail *)
StrInvalid == "401: keys invalid or no access"
StrCtor == "client constructor error"
StrDecrypt == "InvalidToken"
StrIntegrity == "IntegrityError: UNIQUE constraint failed: exchange_api.exchange"

Init ==
    /\ store = <<>>
    /\ _bybit_client = NoClient
    /\ _testnet_mode = FALSE
    /\ _encryption_manager = NoKey
    /\ envKey \in {NoKey} \cup EnvKeys
    /\ ngen = 0
    /\ events = {}
    /\ trades = {}
    /\ inflight = <<>>
    /\ last = Obs("init", NoReq, 0, "", <<>>, NoClient, FALSE, "none", NoClient)

----------------------------------------------------------------------------
(* Requests.  A value a handler computes once and reads several times is
   bound with \E x \in {value}. *)

AddKeyRequests ==
    [exchange : Exchanges, api_key : KeyStrings, api_secret : SecretStrings, testnet : BOOLEAN]

(* TestKeyRequest has the same fields; test_api_keys never reads exchange *)
TestKeyRequests ==
    [exchange : {"bybit"}, api_key : KeyStrings, api_secret : SecretStrings, testnet : BOOLEAN]

(* POST /api/keys/add *)
AddApiKeys(req, iv1, iv2, ctorFails, venue) ==
    IF req.api_key = <<>> \/ req.api_secret = <<>>
    THEN /\ last' = Obs("add", req, 400, "error", <<"api_key and api_secret required">>,
                        NoClient, FALSE, "none", NoClient)
         /\ UNCHANGED <<store, _bybit_client, _testnet_mode, _encryption_manager, envKey, ngen,
                      events, trades>>
    ELSE IF Lower(req.exchange) # "bybit"
    THEN /\ last' = Obs("add", req, 400, "error", <<"only Bybit is supported">>,
                        NoClient, FALSE, "none", NoClient)
         /\ UNCHANGED <<store, _bybit_client, _testnet_mode, _encryption_manager, envKey, ngen,
                      events, trades>>
    ELSE
      /\ CanGetManager
      /\ \E m \in {GetEncryptionManager(_encryption_manager, envKey, ngen)} :
         \E g \in {GetBybitClient(_bybit_client, _testnet_mode,
                                  req.api_key, req.api_secret, req.testnet, ctorFails)} :
             /\ _encryption_manager' = m.key
             /\ ngen' = m.g
             /\ _testnet_mode' = g.mode
             /\ UNCHANGED envKey
             /\ IF g.raised
                THEN \* get_bybit_client raised: wrapped into a 401
                     /\ _bybit_client' = g.client
                     /\ UNCHANGED <<store, events, trades>>
                     /\ last' = Obs("add", NoReq, 401, "error", <<"connection error: ", StrCtor>>,
                                    NoClient, FALSE, "none", NoClient)
                ELSE IF ~ValidateCredentials(venue)
                THEN \* reset, then HTTPException(401), which the `except Exception`
                     \* around the validation catches and wraps into another 401
                     /\ _bybit_client' = ResetBybitClient(g.client)
                     /\ UNCHANGED <<store, events, trades>>
                     /\ last' = Obs("add", NoReq, 401, "error", <<"connection error: ", StrInvalid>>,
                                    NoClient, g.built, venue, NoClient)
                ELSE \E existing \in {First(store, Lower(req.exchange))} :
                     \E c \in {Commit(store, existing,
                                      <<ExchangeAPI(Lower(req.exchange),
                                                    Encrypt(m.key, iv1, req.api_key),
                                                    Encrypt(m.key, iv2, req.api_secret),
                                                    req.testnet)>>)} :
                         /\ _bybit_client' = g.client
                         /\ store' = c.rows
                         /\ events' = IF c.ok THEN CascadeDelete(events, store, existing)
                                               ELSE events
                         /\ trades' = IF c.ok THEN CascadeDelete(trades, store, existing)
                                               ELSE trades
                         /\ IF ~c.ok
                            THEN \* db.commit() raised: caught by the outer handler, 500
                                 last' = Obs("add", NoReq, 500, "error",
                                             <<"error adding keys: ", StrIntegrity>>,
                                             g.ret, g.built, venue, NoClient)
                            ELSE last' = Obs("add", req, 200, "success", <<"keys added">>,
                                             g.ret, g.built, venue, NoClient)

(* POST /api/keys/test *)
TestApiKeys(req, ctorFails, venue) ==
    IF req.api_key = <<>> \/ req.api_secret = <<>>
    THEN \* the HTTPException(400) is caught by the handler's own `except Exception`
         /\ last' = Obs("test", req, 200, "error",
                        <<"test error: ", "400: api_key and api_secret required">>,
                        NoClient, FALSE, "none", NoClient)
         /\ UNCHANGED <<store, _bybit_client, _testnet_mode, _encryption_manager, envKey, ngen,
                      events, trades>>
    ELSE
      \E g \in {GetBybitClient(_bybit_client, _testnet_mode,
                               req.api_key, req.api_secret, req.testnet, ctorFails)} :
          /\ _testnet_mode' = g.mode
          /\ UNCHANGED <<store, _encryption_manager, envKey, ngen, events, trades>>
          /\ IF g.raised
             THEN /\ _bybit_client' = g.client
                  /\ last' = Obs("test", NoReq, 200, "error", <<"test error: ", StrCtor>>,
                                 NoClient, FALSE, "none", NoClient)
             ELSE /\ _bybit_client' = ResetBybitClient(g.client)
                  /\ last' = Obs("test", NoReq, 200,
                                 IF ValidateCredentials(venue) THEN "success" ELSE "error",
                                 IF ValidateCredentials(venue) THEN <<"keys valid">>
                                                               ELSE <<"keys invalid">>,
                                 NoClient, g.built, venue, NoClient)

(* DELETE /api/keys/remove *)
RemoveApiKeysResetFirst(exchange) ==
    LET exchange_api == First(store, Lower(exchange))
        req == [NoReq EXCEPT !.exchange = exchange]
    IN  /\ _bybit_client' = ResetBybitClient(_bybit_client)
        /\ UNCHANGED <<_testnet_mode, _encryption_manager, envKey, ngen>>
        /\ IF exchange_api = 0
           THEN /\ last' = Obs("remove", req, 404, "error", <<"keys not found">>,
                               NoClient, FALSE, "none", NoClient)
                /\ UNCHANGED <<store, events, trades>>
           ELSE /\ store' = Commit(store, exchange_api, <<>>).rows
                /\ events' = CascadeDelete(events, store, exchange_api)
                /\ trades' = CascadeDelete(trades, store, exchange_api)
                /\ last' = Obs("remove", req, 200, "success", <<"keys removed">>,
                               NoClient, FALSE, "none", _bybit_client)

RemoveApiKeys(exchange) ==
    LET exchange_api == First(store, Lower(exchange))
        req == [NoReq EXCEPT !.exchange = exchange]
    IN  IF exchange_api = 0
        THEN /\ last' = Obs("remove", req, 404, "error", <<"keys not found">>,
                            NoClient, FALSE, "none", NoClient)
             /\ UNCHANGED <<store, _bybit_client, _testnet_mode, _encryption_manager, envKey, ngen,
                      events, trades>>
        ELSE /\ store' = Commit(store, exchange_api, <<>>).rows
             /\ events' = CascadeDelete(events, store, exchange_api)
             /\ trades' = CascadeDelete(trades, store, exchange_api)
             /\ _bybit_client' = ResetBybitClient(_bybit_client)
             /\ last' = Obs("remove", req, 200, "success", <<"keys removed">>,
                            NoClient, FALSE, "none", _bybit_client)
             /\ UNCHANGED <<_testnet_mode, _encryption_manager, envKey, ngen>>

(* GET /api/keys/status: reads every row, changes nothing *)
GetKeysStatus ==
    /\ last' = Obs("status", NoReq, 200, "success", <<"exchanges">>,
                   NoClient, FALSE, "none", NoClient)
    /\ UNCHANGED <<store, _bybit_client, _testnet_mode, _encryption_manager, envKey, ngen,
                      events, trades>>

----------------------------------------------------------------------------
(* Query endpoints: look the "bybit" row up, decrypt it, obtain the client,
   call the venue.  They differ only in how they shape the response. *)

(* the count endpoints answer "success" whatever happens after the lookup *)
CountEndpoint(op) == op \in {"positions_open", "orders_active"}

(* body status when no row is stored *)
BodyNoRow(op) == IF CountEndpoint(op) THEN "success" ELSE "error"

(* body status when decrypt or get_bybit_client raises *)
BodyRaised(op) == IF CountEndpoint(op) THEN "success" ELSE "error"

(* body status after the venue call: BybitClientWrapper.get_account_info
   swallows every failure; the other endpoints call client.client directly,
   so a raising venue call reaches their inner `except Exception` *)
BodyVenue(op, venue) ==
    IF op = "account" \/ CountEndpoint(op) THEN "success"
    ELSE IF venue = "raise" THEN "error" ELSE "success"

QueryEndpoint(op, ctorFails, venue) ==
    \E exchange \in {First(store, "bybit")} :
        IF exchange = 0
        THEN /\ last' = Obs(op, NoReq, 200, BodyNoRow(op), <<"keys not added">>,
                            NoClient, FALSE, "none", NoClient)
             /\ UNCHANGED <<store, _bybit_client, _testnet_mode, _encryption_manager, envKey, ngen,
                      events, trades>>
        ELSE
          /\ CanGetManager
          /\ \E m \in {GetEncryptionManager(_encryption_manager, envKey, ngen)} :
             \E api_key \in {Decrypt(m.key, store[exchange].api_key_encrypted)} :
             \E api_secret \in {Decrypt(m.key, store[exchange].api_secret_encrypted)} :
             \E g \in {GetBybitClient(_bybit_client, _testnet_mode, api_key.data,
                                      api_secret.data, store[exchange].testnet, ctorFails)} :
             \E req \in {[exchange |-> "bybit", api_key |-> api_key.data,
                          api_secret |-> api_secret.data, testnet |-> store[exchange].testnet]} :
                 /\ _encryption_manager' = m.key
                 /\ ngen' = m.g
                 /\ UNCHANGED <<store, envKey, events, trades>>
                 /\ IF ~api_key.ok \/ ~api_secret.ok
                    THEN /\ UNCHANGED <<_bybit_client, _testnet_mode>>
                         /\ last' = Obs(op, NoReq, 200, BodyRaised(op), <<"venue error: ", StrDecrypt>>,
                                        NoClient, FALSE, "none", NoClient)
                    ELSE /\ _bybit_client' = g.client
                         /\ _testnet_mode' = g.mode
                         /\ IF g.raised
                            THEN last' = Obs(op, req, 200, BodyRaised(op), <<"venue error: ", StrCtor>>,
                                             NoClient, FALSE, "none", NoClient)
                            ELSE last' = Obs(op, req, 200, BodyVenue(op, venue), <<"venue result">>,
                                             g.ret, g.built, venue, NoClient)

(* GET /api/account *)
GetAccountInfo(ctorFails, venue) == QueryEndpoint("account", ctorFails, venue)

(* GET /api/positions/ *)
GetPositions(ctorFails, venue) == QueryEndpoint("positions", ctorFails, venue)

(* GET /api/positions/open *)
GetOpenPositionsCount(ctorFails, venue) == QueryEndpoint("positions_open", ctorFails, venue)

(* GET /api/orders/ *)
GetOrders(ctorFails, venue) == QueryEndpoint("orders", ctorFails, venue)

(* GET /api/orders/active *)
GetActiveOrdersCount(ctorFails, venue) == QueryEndpoint("orders_active", ctorFails, venue)

(* The inputs of a request.  An input a request does not read is fixed to
   one value, so that the same transition is not enumerated once per value:
   the exchange and testnet of a request refused for an empty field, the
   testnet of a request refused for its exchange, the constructor's
   behaviour when no client is constructed, the venue's when no venue call
   is made, the IVs when the tokens are never stored (the request ends
   before the commit, or the commit fails). *)
ValidKeyRequest(req) == req.api_key # <<>> /\ req.api_secret # <<>>

AddRequestChoices ==
    {req \in AddKeyRequests :
        /\ ~ValidKeyRequest(req) => req.exchange = "bybit"
        /\ ~(ValidKeyRequest(req) /\ Lower(req.exchange) = "bybit") => ~req.testnet}

TestRequestChoices ==
    {req \in TestKeyRequests : ~ValidKeyRequest(req) => ~req.testnet}

CtorChoices(reaches, api_key, testnet) ==
    IF reaches /\ NeedsRebuild(_bybit_client, _testnet_mode, api_key, testnet)
    THEN BOOLEAN ELSE {FALSE}

VenueChoices(reaches, ctorFails) ==
    IF reaches /\ ~ctorFails THEN VenueResults ELSE {"ok"}

IVChoices(reaches, ctorFails, venue) ==
    IF reaches /\ ~ctorFails /\ venue = "ok" /\ First(store, "bybit") = 0 THEN IVs ELSE {0}

AddReaches(req) == ValidKeyRequest(req) /\ Lower(req.exchange) = "bybit"

QueryReaches == First(store, "bybit") # 0

Next ==
    \/ \E req \in AddRequestChoices :
       \E ctorFails \in CtorChoices(AddReaches(req), req.api_key, req.testnet) :
       \E venue \in VenueChoices(AddReaches(req), ctorFails) :
       \E iv1 \in IVChoices(AddReaches(req), ctorFails, venue) :
       \E iv2 \in IVChoices(AddReaches(req), ctorFails, venue) :
          AddApiKeys(req, iv1, iv2, ctorFails, venue) /\ UNCHANGED inflight
    \/ \E req \in TestRequestChoices :
       \E ctorFails \in CtorChoices(ValidKeyRequest(req), req.api_key, req.testnet) :
       \E venue \in VenueChoices(ValidKeyRequest(req), ctorFails) :
          TestApiKeys(req, ctorFails, venue) /\ UNCHANGED inflight
    \/ \E exchange \in Exchanges : RemoveApiKeys(exchange) /\ UNCHANGED inflight
    \/ GetKeysStatus /\ UNCHANGED inflight
    \/ \E ctorFails \in BOOLEAN : \E venue \in VenueChoices(QueryReaches, ctorFails) :
          GetAccountInfo(ctorFails, venue) /\ UNCHANGED inflight
    \/ \E ctorFails \in BOOLEAN : \E venue \in VenueChoices(QueryReaches, ctorFails) :
          GetPositions(ctorFails, venue) /\ UNCHANGED inflight
    \/ \E ctorFails \in BOOLEAN : \E venue \in VenueChoices(QueryReaches, ctorFails) :
          GetOpenPositionsCount(ctorFails, venue) /\ UNCHANGED inflight
    \/ \E ctorFails \in BOOLEAN : \E venue \in VenueChoices(QueryReaches, ctorFails) :
          GetOrders(ctorFails, venue) /\ UNCHANGED inflight
    \/ \E ctorFails \in BOOLEAN : \E venue \in VenueChoices(QueryReaches, ctorFails) :
          GetActiveOrdersCount(ctorFails, venue) /\ UNCHANGED inflight

Spec == Init /\ [][Next]_vars

(* The same requests served by a process started on a database file that
   already holds a "bybit" row, written under the deployment's ENCRYPTION_KEY,
   with an event and a trade that refer to it. *)
InitStored ==
    /\ envKey \in EnvKeys
    /\ store = <<ExchangeAPI("bybit", Encrypt(envKey, 0, <<1>>), Encrypt(envKey, 0, <<3, 3>>),
                             FALSE)>>
    /\ events = {AuditRow(1, "bybit")}
    /\ trades = {AuditRow(1, "bybit")}
    /\ _bybit_client = NoClient
    /\ _testnet_mode = FALSE
    /\ _encryption_manager = NoKey
    /\ ngen = 0
    /\ inflight = <<>>
    /\ last = Obs("init", NoReq, 0, "", <<>>, NoClient, FALSE, "none", NoClient)

SpecStored == InitStored /\ [][Next]_vars

----------------------------------------------------------------------------
(* Concurrent requests.  Every handler is an `async def` coroutine on the one
   event loop of the uvicorn process, and the loop switches coroutines only at
   an await.  The handlers call the session, the venue and the database
   synchronously, so a handler that has started runs to its return before any
   other handler runs.  A test or account handler is modelled in two steps,
   the call to get_bybit_client and the venue call on the client it returned;
   inflight holds, for every accepted request, how far its handler is (pc)
   and its local variable bybit_client (client). *)

Request(kind, req) ==
    [kind |-> kind, req |-> req, pc |-> "start", client |-> NoClient,
     status |-> 0, venue |-> "none"]

(* the handler of request i has returned with HTTP status and, if it called
   the venue, the venue's behaviour *)
Done(i, status, venue) ==
    [inflight EXCEPT ![i].pc = "done", ![i].status = status, ![i].venue = venue]

KeyRequest(api_key, api_secret, testnet) ==
    [exchange |-> "bybit", api_key |-> api_key, api_secret |-> api_secret, testnet |-> testnet]

(* the requests that arrive concurrently *)
LoopRequests ==
    {Request("test", KeyRequest(<<1>>, <<4, 4>>, FALSE)),
     Request("test", KeyRequest(<<2>>, <<3, 3>>, FALSE)),
     Request("account", NoReq),
     Request("add", KeyRequest(<<2>>, <<3, 3>>, FALSE)),
     Request("add", KeyRequest(<<2>>, <<4, 4>>, TRUE)),
     Request("remove", [NoReq EXCEPT !.exchange = "bybit"])}

(* the event loop can run a step of request i: no other handler is between
   its first statement and its return *)
LoopFreeThreads(i) == TRUE

LoopFree(i) == \A j \in 1..Len(inflight) : j # i => inflight[j].pc # "obtained"

(* the server accepts a request *)
Accept(r) ==
    /\ Len(inflight) < MaxInflight
    /\ inflight' = Append(inflight, r)
    /\ UNCHANGED <<store, _bybit_client, _testnet_mode, _encryption_manager, envKey, ngen,
                   events, trades, last>>

(* test_api_keys up to the return of get_bybit_client *)
TestObtain(i, ctorFails) ==
    /\ inflight[i].kind = "test" /\ inflight[i].pc = "start"
    /\ LoopFree(i)
    /\ UNCHANGED <<store, _encryption_manager, envKey, ngen, events, trades, last>>
    /\ IF ~ValidKeyRequest(inflight[i].req)
       THEN /\ inflight' = Done(i, 200, "none")
            /\ UNCHANGED <<_bybit_client, _testnet_mode>>
       ELSE \E g \in {GetBybitClient(_bybit_client, _testnet_mode, inflight[i].req.api_key,
                                     inflight[i].req.api_secret, inflight[i].req.testnet,
                                     ctorFails)} :
               /\ _bybit_client' = g.client
               /\ _testnet_mode' = g.mode
               /\ inflight' = IF g.raised THEN Done(i, 200, "none")
                              ELSE [inflight EXCEPT ![i].pc = "obtained", ![i].client = g.ret]

(* test_api_keys from bybit_client.validate_credentials() to its return *)
TestUse(i, venue) ==
    /\ inflight[i].kind = "test" /\ inflight[i].pc = "obtained"
    /\ LoopFree(i)
    /\ _bybit_client' = ResetBybitClient(_bybit_client)
    /\ inflight' = Done(i, 200, venue)
    /\ UNCHANGED <<store, _testnet_mode, _encryption_manager, envKey, ngen, events, trades, last>>

(* get_account_info up to the return of get_bybit_client; req becomes the
   stored credentials it decrypted *)
AccountObtain(i, ctorFails) ==
    /\ inflight[i].kind = "account" /\ inflight[i].pc = "start"
    /\ LoopFree(i)
    /\ UNCHANGED <<store, envKey, events, trades, last>>
    /\ \E exchange \in {First(store, "bybit")} :
          IF exchange = 0
          THEN /\ inflight' = Done(i, 200, "none")
               /\ UNCHANGED <<_bybit_client, _testnet_mode, _encryption_manager, ngen>>
          ELSE
            /\ CanGetManager
            /\ \E m \in {GetEncryptionManager(_encryption_manager, envKey, ngen)} :
               \E api_key \in {Decrypt(m.key, store[exchange].api_key_encrypted)} :
               \E api_secret \in {Decrypt(m.key, store[exchange].api_secret_encrypted)} :
               \E g \in {GetBybitClient(_bybit_client, _testnet_mode, api_key.data,
                                        api_secret.data, store[exchange].testnet, ctorFails)} :
                   /\ _encryption_manager' = m.key
                   /\ ngen' = m.g
                   /\ IF ~api_key.ok \/ ~api_secret.ok
                      THEN /\ inflight' = Done(i, 200, "none")
                           /\ UNCHANGED <<_bybit_client, _testnet_mode>>
                      ELSE /\ _bybit_client' = g.client
                           /\ _testnet_mode' = g.mode
                           /\ inflight' =
                                 IF g.raised THEN Done(i, 200, "none")
                                 ELSE [inflight EXCEPT
                                          ![i].pc = "obtained", ![i].client = g.ret,
                                          ![i].req = KeyRequest(api_key.data, api_secret.data,
                                                                store[exchange].testnet)]

(* get_account_info from client.get_account_info() to its return *)
AccountUse(i, venue) ==
    /\ inflight[i].kind = "account" /\ inflight[i].pc = "obtained"
    /\ LoopFree(i)
    /\ inflight' = Done(i, 200, venue)
    /\ UNCHANGED <<store, _bybit_client, _testnet_mode, _encryption_manager, envKey, ngen,
                   events, trades, last>>

(* add_api_keys, whole: it has no step at which the loop could switch *)
AddRun(i, iv1, iv2, ctorFails, venue) ==
    /\ inflight[i].kind = "add" /\ inflight[i].pc = "start"
    /\ LoopFree(i)
    /\ AddApiKeys(inflight[i].req, iv1, iv2, ctorFails, venue)
    /\ inflight' = Done(i, last'.status, last'.venue)

(* remove_api_keys, whole *)
RemoveRun(i) ==
    /\ inflight[i].kind = "remove" /\ inflight[i].pc = "start"
    /\ LoopFree(i)
    /\ RemoveApiKeys(inflight[i].req.exchange)
    /\ inflight' = Done(i, last'.status, "none")

(* the responses have been sent *)
Retire ==
    /\ inflight # <<>>
    /\ \A i \in 1..Len(inflight) : inflight[i].pc = "done"
    /\ inflight' = <<>>
    /\ UNCHANGED <<store, _bybit_client, _testnet_mode, _encryption_manager, envKey, ngen,
                   events, trades, last>>

NextLoop ==
    \/ \E r \in LoopRequests : Accept(r)
    \/ \E i \in 1..Len(inflight) : \E ctorFails \in BOOLEAN : TestObtain(i, ctorFails)
    \/ \E i \in 1..Len(inflight) : \E venue \in VenueResults : TestUse(i, venue)
    \/ \E i \in 1..Len(inflight) : \E ctorFails \in BOOLEAN : AccountObtain(i, ctorFails)
    \/ \E i \in 1..Len(inflight) : \E venue \in VenueResults : AccountUse(i, venue)
    \/ \E i \in 1..Len(inflight) : \E venue \in VenueResults : AddRun(i, 0, 0, FALSE, venue)
    \/ \E i \in 1..Len(inflight) : RemoveRun(i)
    \/ Retire

SpecLoop == InitStored /\ [][NextLoop]_vars

----------------------------------------------------------------------------
(* The session cache on its own: any sequence of get_bybit_client and
   reset_bybit_client calls. *)

ObtainCall(api_key, api_secret, testnet, ctorFails) ==
    \E g \in {GetBybitClient(_bybit_client, _testnet_mode,
                             api_key, api_secret, testnet, ctorFails)} :
    \E req \in {[exchange |-> "bybit", api_key |-> api_key, api_secret |-> api_secret,
                 testnet |-> testnet]} :
        /\ _bybit_client' = g.client
        /\ _testnet_mode' = g.mode
        /\ last' = Obs("obtain", req, 0, IF g.raised THEN "raised" ELSE "returned", <<>>,
                       g.ret, g.built, "none", NoClient)
        /\ UNCHANGED <<store, _encryption_manager, envKey, ngen, events, trades>>

InvalidateCall ==
    /\ _bybit_client' = ResetBybitClient(_bybit_client)
    /\ last' = Obs("invalidate", NoReq, 0, "returned", <<>>, NoClient, FALSE, "none", _bybit_client)
    /\ UNCHANGED <<store, _testnet_mode, _encryption_manager, envKey, ngen, events, trades>>

NextSession ==
    \/ \E api_key \in KeyStrings \ {<<>>}, api_secret \in SecretStrings \ {<<>>},
          testnet \in BOOLEAN, ctorFails \in BOOLEAN :
          ObtainCall(api_key, api_secret, testnet, ctorFails) /\ UNCHANGED inflight
    \/ InvalidateCall /\ UNCHANGED inflight

SpecSession == Init /\ [][NextSession]_vars

----------------------------------------------------------------------------
(* The client wrapper's methods on their own.  The session is absent or
   bound, the venue's answer to get_wallet_balance is any of WalletResponses,
   and validate_credentials, get_account_info and get_account_balance are
   called on it in any order. *)

(* what a completed call left to observe: the venue's answer, whether the
   call raised to its caller, what it returned, and whether the session was
   absent when it was made *)
CallObs(op, resp, r, absent) ==
    [op |-> op, resp |-> resp, raised |-> r.raised, ret |-> r.ret, absent |-> absent]

InitWrapper ==
    /\ store = <<>>
    /\ _bybit_client \in {NoClient, BybitClientWrapper(<<1>>, <<3, 3>>, FALSE)}
    /\ _testnet_mode = FALSE
    /\ _encryption_manager = NoKey
    /\ envKey = NoKey
    /\ ngen = 0
    /\ events = {}
    /\ trades = {}
    /\ inflight = <<>>
    /\ \E resp \in WalletResponses :
          last = CallObs("venue", resp, [raised |-> FALSE, ret |-> FALSE], FALSE)

ValidateCredentialsCall ==
    /\ _bybit_client # NoClient
    /\ last' = CallObs("validate", last.resp, ValidateCredentialsOn(last.resp), FALSE)
    /\ UNCHANGED <<store, _bybit_client, _testnet_mode, _encryption_manager, envKey, ngen,
                      events, trades>>

GetAccountInfoCall ==
    /\ _bybit_client # NoClient
    /\ last' = CallObs("account_info", last.resp, AccountInfoOn(last.resp), FALSE)
    /\ UNCHANGED <<store, _bybit_client, _testnet_mode, _encryption_manager, envKey, ngen,
                      events, trades>>

GetAccountBalanceCall ==
    /\ last' = CallObs("account_balance", last.resp,
                       AccountBalanceOn(_bybit_client, last.resp), _bybit_client = NoClient)
    /\ UNCHANGED <<store, _bybit_client, _testnet_mode, _encryption_manager, envKey, ngen,
                      events, trades>>

NextWrapper ==
    \/ ValidateCredentialsCall /\ UNCHANGED inflight
    \/ GetAccountInfoCall /\ UNCHANGED inflight
    \/ GetAccountBalanceCall /\ UNCHANGED inflight

SpecWrapper == InitWrapper /\ [][NextWrapper]_vars

----------------------------------------------------------------------------
(* Positions.  The venue's answers to get_positions(category="linear") and
   get_open_orders(category="linear"): the call raises, returns None, or
   returns a dict with or without retCode and with or without result.list.
   An entry of a list is reduced to its key 'size'; an open order has none. *)

MaxList == 2        \* entries in a list the venue returns
MaxSize == 1        \* position sizes range over 0..MaxSize

PositionEntries == [kind : {"position"}, size : {Missing, Unparsable} \cup (0..MaxSize)]
OrderEntries == [kind : {"order"}, size : {Missing}]

(* the sequences over S of length at most n *)
SeqsUpTo(S, n) == UNION {[1..k -> S] : k \in 0..n}

ListResponses(entries) ==
    {NoResponse(kind) : kind \in {"raise", "none"}}
    \cup [kind : {"dict"}, retCode : {Missing} \cup RetCodes, haslist : {FALSE}, list : {<<>>}]
    \cup [kind : {"dict"}, retCode : {Missing} \cup RetCodes, haslist : {TRUE},
          list : SeqsUpTo(entries, MaxList)]

(* what the venue answers to the two calls *)
VenueAnswers == [positions : ListResponses(PositionEntries), orders : ListResponses(OrderEntries)]

(* result.get('result', {}).get('list', []) *)
ResultList(resp) == IF resp.haslist THEN resp.list ELSE <<>>

(* the body of BybitClientWrapper.get_positions' try block: it calls
   self.client.get_open_orders and returns the list as it came *)
GetPositionsBody(ans) ==
    IF ans.orders.kind = "raise" THEN [raised |-> TRUE, ret |-> <<>>]
    ELSE IF ~RetCodeIsZero(ans.orders).ret THEN [raised |-> FALSE, ret |-> <<>>]
    ELSE [raised |-> FALSE, ret |-> ResultList(ans.orders)]

(* BybitClientWrapper.get_positions *)
GetPositionsOn(ans) ==
    IF GetPositionsBody(ans).raised THEN [raised |-> FALSE, ret |-> <<>>]
    ELSE GetPositionsBody(ans)

(* get_positions(): the module-level function, on the cached client *)
ModulePositionsOn(client, ans) ==
    IF client = NoClient THEN [raised |-> FALSE, ret |-> <<>>]
    ELSE GetPositionsOn(ans)

(* [p for p in positions if float(p.get('size', 0)) > 0] *)
RECURSIVE OpenOnly(_)
OpenOnly(list) ==
    IF list = <<>> THEN <<>>
    ELSE IF FloatOf(Head(list), "size").ret > 0 THEN <<Head(list)>> \o OpenOnly(Tail(list))
    ELSE OpenOnly(Tail(list))

(* GET /api/positions/ from client.client.get_positions to the return: the
   status and the positions of the response body *)
PositionsShape(ans) ==
    IF ans.positions.kind = "raise" THEN [status |-> "error", positions |-> <<>>]
    ELSE IF ~RetCodeIsZero(ans.positions).ret THEN [status |-> "success", positions |-> <<>>]
    ELSE IF \E i \in 1..Len(ResultList(ans.positions)) :
               FloatOf(ResultList(ans.positions)[i], "size").raised
    THEN [status |-> "error", positions |-> <<>>]
    ELSE [status |-> "success", positions |-> OpenOnly(ResultList(ans.positions))]

InitPositions ==
    /\ store = <<>>
    /\ _bybit_client \in {NoClient, BybitClientWrapper(<<1>>, <<3, 3>>, FALSE)}
    /\ _testnet_mode = FALSE
    /\ _encryption_manager = NoKey
    /\ envKey = NoKey
    /\ ngen = 0
    /\ events = {}
    /\ trades = {}
    /\ inflight = <<>>
    /\ \E ans \in VenueAnswers :
          last = CallObs("venue", ans, [raised |-> FALSE, ret |-> <<>>], FALSE)

WrapperGetPositionsCall ==
    /\ _bybit_client # NoClient
    /\ last' = CallObs("get_positions", last.resp, GetPositionsOn(last.resp), FALSE)
    /\ UNCHANGED <<store, _bybit_client, _testnet_mode, _encryption_manager, envKey, ngen,
                   events, trades>>

ModuleGetPositionsCall ==
    /\ last' = CallObs("module_get_positions", last.resp,
                       ModulePositionsOn(_bybit_client, last.resp), _bybit_client = NoClient)
    /\ UNCHANGED <<store, _bybit_client, _testnet_mode, _encryption_manager, envKey, ngen,
                   events, trades>>

PositionsEndpointCall ==
    /\ _bybit_client # NoClient
    /\ last' = CallObs("positions_endpoint", last.resp,
                       [raised |-> FALSE, ret |-> PositionsShape(last.resp).positions], FALSE)
    /\ UNCHANGED <<store, _bybit_client, _testnet_mode, _encryption_manager, envKey, ngen,
                   events, trades>>

NextPositions ==
    \/ WrapperGetPositionsCall /\ UNCHANGED inflight
    \/ ModuleGetPositionsCall /\ UNCHANGED inflight
    \/ PositionsEndpointCall /\ UNCHANGED inflight

SpecPositions == InitPositions /\ [][NextPositions]_vars

----------------------------------------------------------------------------
(* The secret cipher on its own: get_encryption_manager, encrypt and decrypt
   called in any order on text strings, a stored token altered in one place,
   and the process restarted with or without ENCRYPTION_KEY. *)

MaxPlain == 2       \* characters in a plaintext

(* a value of ENCRYPTION_KEY that Fernet() rejects with ValueError *)
BadKey == -3

(* the characters of a plaintext, as code points: one that UTF-8 encodes in
   one byte and one that it encodes in two *)
CodePoints == {65, 233}
PlainStrings == UNION {[1..k -> CodePoints] : k \in 0..MaxPlain}

(* str.encode(): UTF-8 *)
RECURSIVE Utf8Encode(_)
Utf8Encode(s) ==
    IF s = <<>> THEN <<>>
    ELSE (IF Head(s) < 128 THEN <<Head(s)>>
          ELSE <<192 + (Head(s) \div 64), 128 + (Head(s) % 64)>>) \o Utf8Encode(Tail(s))

(* bytes.decode(): UTF-8, raising on a sequence that is not UTF-8 *)
RECURSIVE Utf8Decode(_)
Latin1Decode(b) == [ok |-> TRUE, data |-> b]

Utf8Decode(b) ==
    IF b = <<>> THEN [ok |-> TRUE, data |-> <<>>]
    ELSE IF b[1] < 128
    THEN [ok |-> Utf8Decode(Tail(b)).ok,
          data |-> IF Utf8Decode(Tail(b)).ok THEN <<b[1]>> \o Utf8Decode(Tail(b)).data
                   ELSE <<>>]
    ELSE IF b[1] >= 194 /\ b[1] < 224 /\ Len(b) >= 2 /\ b[2] >= 128 /\ b[2] < 192
    THEN [ok |-> Utf8Decode(Tail(Tail(b))).ok,
          data |-> IF Utf8Decode(Tail(Tail(b))).ok
                   THEN <<(b[1] - 192) * 64 + (b[2] - 128)>> \o Utf8Decode(Tail(Tail(b))).data
                   ELSE <<>>]
    ELSE [ok |-> FALSE, data |-> <<>>]

(* EncryptionManager.encrypt on a str *)
EncryptStr(key, iv, data) == Encrypt(key, iv, Utf8Encode(data))

(* EncryptionManager.decrypt to a str: the exception of cipher.decrypt and of
   .decode() is logged and raised again *)
DecryptStr(key, token) ==
    IF ~Decrypt(key, token).ok THEN [ok |-> FALSE, data |-> <<>>]
    ELSE Utf8Decode(Decrypt(key, token).data)

(* Fernet(key) in EncryptionManager.__init__ raises on a malformed key, and
   get_encryption_manager lets it through without setting the global *)
ManagerRaises(mgr, env) == mgr = NoKey /\ env = BadKey

(* what a cipher call left to observe: the manager's key at the call, the
   plaintext given to the last encrypt (data), the stored token, the key it
   was produced under (madeBy), whether it was altered since, and the outcome
   of the call (raised; out: the str a decrypt returned) *)
CipherObs(op, key, data, token, madeBy, altered, raised, out) ==
    [op |-> op, key |-> key, data |-> data, token |-> token, madeBy |-> madeBy,
     altered |-> altered, raised |-> raised, out |-> out]

InitCipher ==
    /\ store = <<>>
    /\ _bybit_client = NoClient
    /\ _testnet_mode = FALSE
    /\ _encryption_manager = NoKey
    /\ envKey \in {NoKey, BadKey} \cup EnvKeys
    /\ ngen = 0
    /\ events = {}
    /\ trades = {}
    /\ inflight = <<>>
    /\ last = CipherObs("init", NoKey, <<>>, <<>>, NoKey, FALSE, FALSE, <<>>)

(* get_encryption_manager() *)
GetManagerCall ==
    /\ UNCHANGED <<store, _bybit_client, _testnet_mode, envKey, events, trades>>
    /\ IF ManagerRaises(_encryption_manager, envKey)
       THEN /\ UNCHANGED <<_encryption_manager, ngen>>
            /\ last' = [last EXCEPT !.op = "get_manager", !.key = NoKey, !.raised = TRUE,
                                    !.out = <<>>]
       ELSE /\ CanGetManager
            /\ \E m \in {GetEncryptionManager(_encryption_manager, envKey, ngen)} :
                  /\ _encryption_manager' = m.key
                  /\ ngen' = m.g
                  /\ last' = [last EXCEPT !.op = "get_manager", !.key = m.key,
                                          !.raised = FALSE, !.out = <<>>]

(* get_encryption_manager().encrypt(data), the token kept as a stored field *)
EncryptCall(data, iv) ==
    /\ _encryption_manager # NoKey
    /\ last' = CipherObs("encrypt", _encryption_manager, data,
                         EncryptStr(_encryption_manager, iv, data), _encryption_manager,
                         FALSE, FALSE, <<>>)
    /\ UNCHANGED <<store, _bybit_client, _testnet_mode, _encryption_manager, envKey, ngen,
                   events, trades>>

(* get_encryption_manager().decrypt(token) on the stored token *)
DecryptCall ==
    /\ _encryption_manager # NoKey
    /\ last.token # <<>>
    /\ \E d \in {DecryptStr(_encryption_manager, last.token)} :
          last' = [last EXCEPT !.op = "decrypt", !.key = _encryption_manager,
                               !.raised = ~d.ok, !.out = d.data]
    /\ UNCHANGED <<store, _bybit_client, _testnet_mode, _encryption_manager, envKey, ngen,
                   events, trades>>

(* the stored token as encrypt returned it is changed in one place *)
AlterToken(i, delta) ==
    /\ last.op = "encrypt"
    /\ i \in 1..Len(last.token)
    /\ last' = [last EXCEPT !.op = "alter", !.altered = TRUE,
                            !.token = [last.token EXCEPT ![i] = (last.token[i] + delta) % Base]]
    /\ last'.token # last.token
    /\ UNCHANGED <<store, _bybit_client, _testnet_mode, _encryption_manager, envKey, ngen,
                   events, trades>>

(* the process is restarted with ENCRYPTION_KEY set to env: the module global
   is None again, the stored token is kept *)
RestartCipher(env) ==
    /\ last.op # "restart"
    /\ _encryption_manager' = NoKey
    /\ envKey' = env
    /\ last' = [last EXCEPT !.op = "restart", !.key = NoKey, !.raised = FALSE, !.out = <<>>]
    /\ UNCHANGED <<store, _bybit_client, _testnet_mode, ngen, events, trades>>

NextCipher ==
    \/ GetManagerCall /\ UNCHANGED inflight
    \/ \E data \in PlainStrings, iv \in IVs : EncryptCall(data, iv) /\ UNCHANGED inflight
    \/ DecryptCall /\ UNCHANGED inflight
    \/ \E i \in 1..(MaxPlain * 2 + 3), delta \in {1, 128} : AlterToken(i, delta) /\ UNCHANGED inflight
    \/ \E env \in {NoKey, BadKey} \cup EnvKeys : RestartCipher(env) /\ UNCHANGED inflight

SpecCipher == InitCipher /\ [][NextCipher]_vars

----------------------------------------------------------------------------
(* Restarts.  The database file outlives the process; the module globals
   _bybit_client, _testnet_mode and _encryption_manager start again from
   their initial values, and ENCRYPTION_KEY is whatever the new process is
   started with. *)

QueryOps == {"account", "positions", "positions_open", "orders", "orders_active"}

(* the credentials the running process reads from the stored "bybit" row,
   NoReq when there is no row, no manager yet, or a field it cannot decrypt *)
StoredPlain(rows, key) ==
    IF First(rows, "bybit") = 0 \/ key = NoKey THEN NoReq
    ELSE LET row == rows[First(rows, "bybit")]
             api_key == Decrypt(key, row.api_key_encrypted)
             api_secret == Decrypt(key, row.api_secret_encrypted)
         IN  IF ~api_key.ok \/ ~api_secret.ok THEN NoReq
             ELSE [exchange |-> "bybit", api_key |-> api_key.data,
                   api_secret |-> api_secret.data, testnet |-> row.testnet]

(* the process stops and starts again with ENCRYPTION_KEY = env.  Observed:
   the credentials the old process read from the store (req) and the key of
   its manager (status) *)
Restart(env) ==
    /\ last.op # "restart"
    /\ _bybit_client' = NoClient
    /\ _testnet_mode' = FALSE
    /\ _encryption_manager' = NoKey
    /\ envKey' = env
    /\ last' = Obs("restart", StoredPlain(store, _encryption_manager), _encryption_manager,
                   "", <<>>, NoClient, FALSE, "none", NoClient)
    /\ UNCHANGED <<store, ngen, events, trades>>

(* the add requests between restarts *)
RestartRequests ==
    {KeyRequest(<<1>>, <<3, 3>>, FALSE), KeyRequest(<<2>>, <<4, 4>>, TRUE)}

NextRestart ==
    \/ \E req \in RestartRequests : \E venue \in VenueResults :
          AddApiKeys(req, 0, 0, FALSE, venue) /\ UNCHANGED inflight
    \/ \E venue \in VenueChoices(QueryReaches, FALSE) :
          GetAccountInfo(FALSE, venue) /\ UNCHANGED inflight
    \/ \E venue \in VenueChoices(QueryReaches, FALSE) :
          GetPositions(FALSE, venue) /\ UNCHANGED inflight
    \/ \E venue \in VenueChoices(QueryReaches, FALSE) :
          GetOpenPositionsCount(FALSE, venue) /\ UNCHANGED inflight
    \/ \E venue \in VenueChoices(QueryReaches, FALSE) :
          GetOrders(FALSE, venue) /\ UNCHANGED inflight
    \/ \E venue \in VenueChoices(QueryReaches, FALSE) :
          GetActiveOrdersCount(FALSE, venue) /\ UNCHANGED inflight
    \/ \E env \in {NoKey} \cup EnvKeys : Restart(env) /\ UNCHANGED inflight

SpecRestart == Init /\ [][NextRestart]_vars

----------------------------------------------------------------------------
(* Properties *)

(* the triple a request asks a client for *)
Triple(req) == BybitClientWrapper(req.api_key, req.api_secret, req.testnet)

(* row is what decrypts, under key, to the request's credentials *)
RowMatches(key, row, req) ==
    /\ row.exchange = Lower(req.exchange)
    /\ Decrypt(key, row.api_key_encrypted) = [ok |-> TRUE, data |-> req.api_key]
    /\ Decrypt(key, row.api_secret_encrypted) = [ok |-> TRUE, data |-> req.api_secret]
    /\ row.testnet = req.testnet

(* C1: the session returned by get_bybit_client(key, secret, mode) is bound to
   exactly the requested key, secret and network mode, whatever the session
   was bound to before *)
C1_ObtainBoundToRequest ==
    (last.op = "obtain" /\ last.body = "returned") =>
        /\ last.ret = Triple(last.req)
        /\ _bybit_client = last.ret

(* C2: whenever add_api_keys has persisted a record for (key, secret, mode),
   the client it obtained and validated with in that request is bound to
   exactly that key, secret and mode *)
C2_PersistedWereValidated ==
    (last.op = "add" /\ last.status = 200) =>
        /\ Len(store) >= 1
        /\ RowMatches(_encryption_manager, store[Len(store)], last.req)
        /\ last.venue = "ok"
        /\ last.ret = Triple(last.req)

C2_Witness ==
    /\ last.op = "add" /\ last.status = 200
    /\ last.ret = Triple(last.req)
    /\ Len(store) = 1 /\ RowMatches(_encryption_manager, store[1], last.req)

(* C3: the store never holds two records with the same venue identifier *)
C3_OneRecordPerVenue ==
    \A i, j \in 1..Len(store) : store[i].exchange = store[j].exchange => i = j

(* an add for a venue that already has a record has been attempted *)
C3_Witness ==
    /\ last.op = "add" /\ last.status = 500
    /\ Len(store) = 1 /\ store[1].exchange = "bybit"

(* C4: an add for "bybit" whose credentials validate, made when the store
   already holds a "bybit" record, succeeds and leaves exactly one "bybit"
   record, which decrypts to the new request's key and secret with its
   testnet flag *)
C4_Replacement ==
    [][(First(store, "bybit") # 0 /\ last'.op = "add" /\ last'.venue = "ok") =>
          /\ last'.status = 200
          /\ Len(store') = 1
          /\ RowMatches(_encryption_manager', store'[1], last'.req)]_vars

(* C5: after a successful add with no prior record, the store holds one
   record, for the lower-cased venue, whose credential fields are tokens
   different from the plaintext key and secret that decrypt in this process to
   the request's key and secret, with the request's testnet flag and
   is_connected true *)
C5_FirstAddStoresCiphertext ==
    [][(store = <<>> /\ last'.op = "add" /\ last'.status = 200) =>
          /\ Len(store') = 1
          /\ RowMatches(_encryption_manager', store'[1], last'.req)
          /\ store'[1].api_key_encrypted \notin {last'.req.api_key, last'.req.api_secret}
          /\ store'[1].api_secret_encrypted \notin {last'.req.api_key, last'.req.api_secret}
          /\ store'[1].is_connected]_vars

(* an upper-case venue name has been stored lower-cased *)
C5_Witness ==
    /\ last.op = "add" /\ last.status = 200 /\ last.req.exchange = "BYBIT"
    /\ Len(store) = 1 /\ store[1].exchange = "bybit"
    /\ store[1].api_key_encrypted # last.req.api_key

(* C6: an add whose venue call does not validate the credentials fails with an
   error and leaves the store exactly as it was *)
C6_RejectedAddKeepsStore ==
    [][(last'.op = "add" /\ last'.venue \in {"reject", "raise"}) =>
          /\ last'.status >= 400
          /\ last'.body = "error"
          /\ store' = store]_vars

(* rejected while a record is stored *)
C6_Witness ==
    /\ last.op = "add" /\ last.venue = "reject" /\ last.status = 401
    /\ Len(store) = 1

(* C7: an add the venue rejects and an add that fails on a transport failure
   give the caller different error outcomes *)
C7_RejectVsTransport ==
    [][(/\ last.op = "add" /\ last.venue = "reject"
        /\ last'.op = "add" /\ last'.venue = "raise") =>
          <<last.status, last.detail>> # <<last'.status, last'.detail>>]_vars

(* C8: when an add replaces the stored credentials of a venue (a record is
   stored and the new credentials validate), the session cache is absent by
   the time the request completes *)
C8_ReplaceTearsDown ==
    [][(First(store, "bybit") # 0 /\ last'.op = "add" /\ last'.venue = "ok") =>
          _bybit_client' = NoClient]_vars

(* C9: after a successful remove the store holds no record for the venue, the
   session is absent, and get_bybit_client with the triple that was bound
   before the remove constructs a client *)
C9_RemoveInvalidates ==
    (last.op = "remove" /\ last.status = 200) =>
        /\ First(store, Lower(last.req.exchange)) = 0
        /\ _bybit_client = NoClient
        /\ GetBybitClient(_bybit_client, _testnet_mode, last.evicted.api_key,
                          last.evicted.api_secret, last.evicted.testnet, FALSE).built

(* a remove found a client cached *)
C9_Witness ==
    /\ last.op = "remove" /\ last.status = 200
    /\ last.evicted # NoClient
    /\ store = <<>>

(* C10: after an add whose validation fails the session cache is absent *)
C10_FailedValidationDropsClient ==
    (last.op = "add" /\ last.venue \in {"reject", "raise"}) => _bybit_client = NoClient

(* the client had been constructed for the rejected credentials *)
C10_Witness ==
    /\ last.op = "add" /\ last.venue = "reject" /\ last.built
    /\ _bybit_client = NoClient

(* the bound session differs from the requested key or mode, or is absent *)
SessionDiffers(client, req) ==
    \/ client = NoClient
    \/ client.api_key # req.api_key
    \/ client.testnet # req.testnet

(* obtain(k1,s1,false), obtain(k2,s2,false), obtain(k1,s1,false) from the
   session (client, mode): the three results of get_bybit_client *)
ObtainThrice(client, mode, k1, s1, k2, s2) ==
    LET g1 == GetBybitClient(client, mode, k1, s1, FALSE, FALSE)
        g2 == GetBybitClient(g1.client, g1.mode, k2, s2, FALSE, FALSE)
        g3 == GetBybitClient(g2.client, g2.mode, k1, s1, FALSE, FALSE)
    IN  <<g1, g2, g3>>

(* C11: get_bybit_client(key, secret, mode) constructs a client exactly when
   the session is absent or bound to another key or another mode, and a
   constructed client is bound to the requested triple; otherwise it returns
   the existing session unchanged without constructing.  From an absent
   session, obtain(k1,s1,false), obtain(k2,s2,false), obtain(k1,s1,false) with
   k1 # k2 constructs three times, the second call returning (k2,s2,false) *)
C11_RebuildExactlyWhenDiffers ==
    [][/\ last'.op = "obtain" =>
            /\ last'.body = "raised" => SessionDiffers(_bybit_client, last'.req)
            /\ last'.body = "returned" =>
                  (last'.built <=> SessionDiffers(_bybit_client, last'.req))
            /\ last'.built => last'.ret = Triple(last'.req) /\ _bybit_client' = last'.ret
            /\ (last'.body = "returned" /\ ~last'.built) =>
                  /\ last'.ret = _bybit_client
                  /\ _bybit_client' = _bybit_client
       /\ _bybit_client = NoClient =>
            \A k1, k2 \in KeyStrings \ {<<>>}, s1, s2 \in SecretStrings \ {<<>>} :
               k1 # k2 =>
                  LET g == ObtainThrice(_bybit_client, _testnet_mode, k1, s1, k2, s2)
                  IN  /\ g[1].built /\ g[2].built /\ g[3].built
                      /\ g[2].ret = BybitClientWrapper(k2, s2, FALSE)]_vars

(* the existing session has been returned without a construction *)
C11_Witness ==
    /\ last.op = "obtain" /\ last.body = "returned" /\ ~last.built
    /\ last.ret = Triple(last.req)
    /\ _bybit_client = last.ret

(* C12: reset_bybit_client leaves the session absent whatever it was bound
   to, and the next get_bybit_client call constructs a client for whatever
   triple it is given, the one bound before the reset included *)
C12_ResetThenConstruct ==
    [][/\ last'.op = "invalidate" =>
            /\ _bybit_client' = NoClient
            /\ GetBybitClient(_bybit_client', _testnet_mode', last'.evicted.api_key,
                              last'.evicted.api_secret, last'.evicted.testnet, FALSE).built
       /\ (last.op = "invalidate" /\ last'.op = "obtain" /\ last'.body = "returned") =>
            /\ last'.built
            /\ last'.ret = Triple(last'.req)]_vars

(* a bound session has been reset *)
C12_Witness ==
    /\ last.op = "invalidate"
    /\ last.evicted # NoClient
    /\ _bybit_client = NoClient

(* C19: validate_credentials returns true exactly when the venue's balance
   call returns a response whose retCode is 0; for every other response, and
   when the venue call raises, it returns false, and it never raises *)
C19_ValidateTrueIffRetCodeZero ==
    last.op = "validate" =>
        /\ ~last.raised
        /\ last.ret <=> (last.resp.kind = "dict" /\ last.resp.retCode = 0)

(* a raising venue call and a response that is not a dict gave false *)
C19_Witness ==
    /\ last.op = "validate"
    /\ last.resp.kind \in {"raise", "text"}
    /\ ~last.raised /\ ~last.ret

(* the venue answers get_account_info's claim names: the call raises, the
   retCode is not 0, the response is empty, the account list is empty *)
FailedResponse(resp) ==
    \/ resp.kind \in {"raise", "none", "empty"}
    \/ resp.kind = "dict" /\ resp.retCode # 0
    \/ resp.kind = "dict" /\ resp.haslist /\ resp.list = <<>>

(* C20: get_account_info never raises, and on a raising venue call, a non-zero
   retCode, an empty response or an empty account list it returns the record
   of four zeros; get_account_balance returns the same record when the
   session is absent *)
C20_ZeroSentinel ==
    /\ last.op \in {"account_info", "account_balance"} => ~last.raised
    /\ (last.op = "account_info" /\ FailedResponse(last.resp)) => last.ret = ZeroAccountInfo
    /\ (last.op = "account_balance" /\ last.absent) => last.ret = ZeroAccountInfo

(* an empty account list under retCode 0 gave the zeros *)
C20_Witness ==
    /\ last.op = "account_info"
    /\ last.resp.kind = "dict" /\ last.resp.retCode = 0
    /\ last.resp.haslist /\ last.resp.list = <<>>
    /\ last.ret = ZeroAccountInfo

(* C15: every successful credential add appends exactly one event row, and so
   does every successful credential remove *)
C15_OneEventPerAddRemove ==
    [][(last'.op \in {"add", "remove"} /\ last'.status = 200) =>
          \E e \in events' \ events : events' = events \cup {e}]_vars

(* C16: no request deletes or changes an existing event or trade row, also
   when the credential row of their venue is replaced or removed *)
C16_AppendOnly ==
    [][events \subseteq events' /\ trades \subseteq trades']_vars

(* the venue of a remove request has a stored row *)
HasRecord(rows, exchange) == \E i \in 1..Len(rows) : rows[i].exchange = Lower(exchange)

(* C17: a remove for a venue without a stored row answers 404 and changes
   neither the store nor the session cache; a remove for a venue with a stored
   row deletes that row *)
C17_RemoveNotFound ==
    [][last'.op = "remove" =>
          IF HasRecord(store, last'.req.exchange)
          THEN /\ last'.status = 200
               /\ ~HasRecord(store', last'.req.exchange)
               /\ Len(store') = Len(store) - 1
          ELSE /\ last'.status = 404
               /\ store' = store
               /\ _bybit_client' = _bybit_client
               /\ _testnet_mode' = _testnet_mode]_vars

(* a remove answered 404 while a session was cached *)
C17_Witness ==
    /\ last.op = "remove" /\ last.status = 404
    /\ _bybit_client # NoClient

(* C18: an add or a test with an empty api_key or api_secret, and an add for
   an exchange other than bybit, is answered with HTTP 400 before a client is
   obtained or called, and leaves the store and the session cache unchanged *)
C18_ValidationError400 ==
    [][(/\ last'.op \in {"add", "test"}
        /\ last'.req # NoReq
        /\ \/ ~ValidKeyRequest(last'.req)
           \/ last'.op = "add" /\ Lower(last'.req.exchange) # "bybit") =>
          /\ last'.status = 400
          /\ ~last'.built /\ last'.venue = "none"
          /\ store' = store
          /\ _bybit_client' = _bybit_client
          /\ _testnet_mode' = _testnet_mode]_vars

(* request j is waiting with a triple that differs from the triple of request
   i, whose handler holds the client it obtained and has not used it yet *)
Overtakes(i, j) ==
    /\ i # j
    /\ inflight[i].pc = "obtained"
    /\ inflight[j].pc = "start" /\ inflight[j].kind = "test"
    /\ Triple(inflight[j].req) # Triple(inflight[i].req)

(* C13: when two requests obtain the session concurrently with different
   triples, there is an interleaving in which the first request's client is
   replaced between its obtain and its use, so that its venue call is executed
   on a client bound to the other request's triple: whenever one request
   holds an unused client and the other waits, the other's get_bybit_client
   can run next *)
C13_ReplacedBetweenObtainAndUse ==
    \A i, j \in 1..Len(inflight) : Overtakes(i, j) => ENABLED TestObtain(j, FALSE)

(* C13, amended: requests that obtain the session concurrently are served one
   after the other.  While a request holds a client it has not used yet no
   other request's get_bybit_client can run, the cache still holds that
   client, and every venue call is executed on the client the request's own
   get_bybit_client call returned, bound to the request's api_key and testnet
   flag *)
C13_ClientKeptUntilUse ==
    \A i \in 1..Len(inflight) :
       /\ inflight[i].pc = "obtained" =>
             /\ _bybit_client = inflight[i].client
             /\ \A j \in 1..Len(inflight) : Overtakes(i, j) => ~ENABLED TestObtain(j, FALSE)
       /\ (inflight[i].pc = "obtained" \/ inflight[i].venue # "none") =>
             /\ inflight[i].kind \in {"test", "account"} =>
                   /\ inflight[i].client.api_key = inflight[i].req.api_key
                   /\ inflight[i].client.testnet = inflight[i].req.testnet

(* a request holds the client it obtained while a request with another key
   waits *)
C13_Witness ==
    \E i, j \in 1..Len(inflight) :
       /\ Overtakes(i, j)
       /\ inflight[j].req.api_key # inflight[i].req.api_key
       /\ _bybit_client = inflight[i].client

(* the handler of request i returns in this step *)
Finishes(i) == i \in 1..Len(inflight) /\ inflight[i].pc # "done" /\ inflight'[i].pc = "done"

(* C14: under every interleaving of concurrent add and remove requests for the
   same venue, a request changes the store completely or not at all and the
   store never holds two records of the venue; once two concurrent adds whose
   credentials the venue accepts have both finished, the store holds exactly
   one record, which decrypts to the credentials of one of the two *)
C14_ConcurrentAddRemove ==
    [][/\ \A m, n \in 1..Len(store') : store'[m].exchange = store'[n].exchange => m = n
       /\ store' # store =>
             \E i \in 1..Len(inflight) :
                /\ Finishes(i)
                /\ \/ /\ inflight[i].kind = "remove"
                      /\ ~HasRecord(store', inflight[i].req.exchange)
                      /\ Len(store') = Len(store) - 1
                   \/ /\ inflight[i].kind = "add"
                      /\ Len(store') = 1
                      /\ RowMatches(_encryption_manager', store'[1], inflight[i].req)
       /\ (/\ Len(inflight') = 2
           /\ \A i \in 1..2 : /\ inflight'[i].kind = "add"
                              /\ inflight'[i].pc = "done"
                              /\ inflight'[i].venue = "ok") =>
             /\ Len(store') = 1
             /\ \E i \in 1..2 : RowMatches(_encryption_manager', store'[1], inflight'[i].req)]_vars


(* the venue's positions call failed: it raised or did not answer retCode 0 *)
PositionsFailed(resp) == resp.kind = "raise" \/ ~RetCodeIsZero(resp).ret

(* the venue's open positions without the zero-size entries *)
NonZeroPositions(resp) == SelectSeq(ResultList(resp), LAMBDA p : p.size # 0)

(* C21: the session's get_positions returns the venue's open positions with
   every zero-size entry removed, and the empty sequence when the venue call
   fails or raises *)
C21_PositionsFiltered ==
    last.op = "get_positions" =>
        /\ ~last.raised
        /\ \A i \in 1..Len(last.ret) : last.ret[i].size # 0
        /\ last.ret = IF PositionsFailed(last.resp.positions) THEN <<>>
                      ELSE NonZeroPositions(last.resp.positions)


(* C22: for every string and every key, decrypt(encrypt(s)) under the same
   key returns s *)
C22_RoundTrip ==
    (last.op = "decrypt" /\ ~last.altered /\ last.key = last.madeBy) =>
        /\ ~last.raised
        /\ last.out = last.data

(* a string with a two-byte character came back *)
C22_Witness ==
    /\ last.op = "decrypt" /\ ~last.altered /\ last.key = last.madeBy
    /\ Len(last.data) = 2 /\ last.data[1] = 233
    /\ last.out = last.data

(* C23: decrypt raises, and returns no plaintext, for every token produced
   under another key than the current one and for every token obtained by
   altering a valid token *)
C23_CrossKeyAndTamper ==
    (last.op = "decrypt" /\ (last.altered \/ last.key # last.madeBy)) =>
        /\ last.raised
        /\ last.out = <<>>

(* a token of the key from ENCRYPTION_KEY was refused under a generated key *)
C23_Witness ==
    /\ last.op = "decrypt" /\ ~last.altered
    /\ last.madeBy \in EnvKeys /\ last.key = GenKey(ngen) /\ ngen >= 1
    /\ last.raised

(* C24: the process-wide cipher key is ENCRYPTION_KEY whenever one is
   supplied, and a generated key is used only when none is supplied *)
C24_KeySource ==
    /\ _encryption_manager # NoKey =>
          IF envKey # NoKey THEN _encryption_manager = envKey
          ELSE ngen >= 1 /\ _encryption_manager = GenKey(ngen)
    /\ (last.op = "get_manager" /\ last.raised) => envKey = BadKey

(* the supplied key is in use, after a restart from a generated key *)
C24_Witness ==
    /\ envKey \in EnvKeys /\ _encryption_manager = envKey
    /\ ngen >= 1
    /\ last.op = "encrypt"


(* the response of a query endpoint whose decrypt raised *)
DecryptFailed(obs) == obs.detail = <<"venue error: ", StrDecrypt>>

(* C25: after a restart without ENCRYPTION_KEY, decrypt fails for the
   credential record that was stored before the restart; after a restart with
   the same ENCRYPTION_KEY as before, the record still decrypts to its
   original plaintext *)
C25_RestartKeepsOrLosesRecords ==
    [][(last.op = "restart" /\ last.req # NoReq /\ last'.op \in QueryOps) =>
          /\ envKey = NoKey =>
                /\ DecryptFailed(last')
                /\ last'.venue = "none"
                /\ StoredPlain(store', _encryption_manager') = NoReq
          /\ (envKey # NoKey /\ envKey = last.status) =>
                /\ ~DecryptFailed(last')
                /\ last'.req = last.req
                /\ StoredPlain(store', _encryption_manager') = last.req]_vars

(* a record written under a generated key could not be read after a restart
   that generated the next key *)
C25_Witness ==
    /\ last.op \in QueryOps /\ DecryptFailed(last)
    /\ envKey = NoKey /\ ngen = 2 /\ _encryption_manager = GenKey(2)
    /\ Len(store) = 1
    /\ Decrypt(GenKey(1), store[1].api_key_encrypted).ok

(* C26: whenever decryption of the stored credentials fails in a query
   endpoint, the response reports an error status and not a success, no venue
   call is made, and the store and the session cache are left unchanged *)
C26_DecryptFailureSurfaced ==
    [][(last'.op \in QueryOps /\ DecryptFailed(last')) =>
          /\ last'.body = "error"
          /\ last'.venue = "none"
          /\ store' = store
          /\ _bybit_client' = _bybit_client
          /\ _testnet_mode' = _testnet_mode]_vars


(* C27: test_api_keys leaves the credential store unchanged for every input
   and every validation outcome, and whenever it ran the validation the
   session cache is absent when the request completes *)
C27_TestNeverSaves ==
    [][last'.op = "test" =>
          /\ store' = store
          /\ events' = events /\ trades' = trades
          /\ last'.venue # "none" => _bybit_client' = NoClient]_vars

(* a test the venue accepted, made while a record is stored, left the record
   and no session *)
C27_Witness ==
    /\ last.op = "test" /\ last.venue = "ok" /\ last.body = "success" /\ last.built
    /\ Len(store) = 1
    /\ _bybit_client = NoClient

(* C28: in sequential execution, every venue call made by a query endpoint is
   executed by a client whose key, secret and network mode equal the
   decrypted values of the record stored at the time of the call, after any
   preceding sequence of add, remove and test requests *)
C28_QueryUsesStoredCredentials ==
    [][(last'.op \in QueryOps /\ last'.venue # "none") =>
          /\ last'.req = StoredPlain(store, _encryption_manager')
          /\ last'.ret = Triple(last'.req)]_vars

(* C29: whenever no request is in progress and the session cache is bound, the
   store holds a record whose decrypted key and network mode equal the
   session's bound key and mode, also after add requests that fail *)
C29_CacheBackedByStore ==
    _bybit_client # NoClient =>
        \E i \in 1..Len(store) :
           /\ Decrypt(_encryption_manager, store[i].api_key_encrypted) =
                 [ok |-> TRUE, data |-> _bybit_client.api_key]
           /\ store[i].testnet = _bybit_client.testnet


(* C30: if constructing the venue client raises inside get_bybit_client, the
   exception reaches the caller and the cached session and the cached network
   mode are exactly as they were before the call; and whenever the session is
   bound, the cached network mode is the bound client's testnet flag *)
C30_CtorFailureKeepsCache ==
    [][/\ (last'.op = "obtain" /\ last'.body = "raised") =>
             /\ _bybit_client' = _bybit_client
             /\ _testnet_mode' = _testnet_mode
             /\ last'.ret = NoClient
       /\ _bybit_client' # NoClient => _testnet_mode' = _bybit_client'.testnet]_vars

(* the constructor raised while a session for another mode was bound *)
C30_Witness ==
    /\ last.op = "obtain" /\ last.body = "raised"
    /\ _bybit_client # NoClient
    /\ last.req.testnet # _bybit_client.testnet
    /\ _testnet_mode = _bybit_client.testnet

====
